---- MODULE Spec2Model ----
(***************************************************************************)
(* A model of the Ansible module github_key                                *)
(* (lib/ansible/modules/extras/source_control/github_key.py): one or two   *)
(* successive invocations of main() against a GitHub account's key store.  *)
(* Every HTTP request of an invocation is one step; the server answers it  *)
(* with a status drawn from StatusSet.                                     *)
(*                                                                         *)
(* Strings that the code takes apart (the pubkey parameter, key material)  *)
(* are sequences of one-character strings; the other strings are opaque.   *)
(***************************************************************************)
EXTENDS Integers, Sequences, FiniteSets, TLC

\* ------------------------------------------------------------------ bounds
\* Largest key collection the account holds before the first invocation.
MaxKeys == 4
\* Keys per page of the server's listing (GitHub's default is 30).
PageSize == 3

\* --------------------------------------------------------------- constants
API_BASE == "https://api.github.com"

\* The one title the invocations are about, and the titles of other keys.
Names == {"key"}
Titles == {"key", "Key"}

\* Key material held by the remote before the first invocation.
KeyA == <<"p", " ", "A">>
KeyB == <<"p", " ", "B">>
Materials == {KeyA, KeyB}

\* Texts given as the pubkey parameter: a single token, a single token with a
\* trailing blank, protocol and data, protocol and data two blanks apart,
\* protocol and data and comment.
PubkeyTexts ==
    { <<"p">>,
      <<"p", " ">>,
      <<"p", " ", "A">>,
      <<"p", " ", " ", "A">>,
      <<"p", " ", "A", " ", "c">> }

\* module.params.get('pubkey'): None, or a text.
Pubkeys ==
    {[given |-> FALSE, text |-> <<>>]}
        \cup {[given |-> TRUE, text |-> t] : t \in PubkeyTexts}

\* module.params of one invocation (the token plays no part in the logic).
Params ==
    [name : Names, pubkey : Pubkeys, state : {"present", "absent"}, force : BOOLEAN]

\* info['status'] values the transport may report.
StatusSet == {199, 200, 399, 400}

\* ------------------------------------------------------------ pure helpers
Min(a, b) == IF a < b THEN a ELSE b

\* str.split(' '): cut at every single blank, keeping empty pieces.
RECURSIVE Split(_)
Split(s) ==
    IF s = <<>> THEN << <<>> >>
    ELSE LET rest == Split(Tail(s))
         IN  IF Head(s) = " "
             THEN << <<>> >> \o rest
             ELSE << <<Head(s)>> \o Head(rest) >> \o Tail(rest)

\* ' '.join(parts)
RECURSIVE Join(_)
Join(parts) ==
    IF parts = <<>> THEN <<>>
    ELSE IF Len(parts) = 1 THEN Head(parts)
    ELSE Head(parts) \o <<" ">> \o Join(Tail(parts))

\* main, lines 200-209: the three-way outcome of the pubkey check.
\*   [fail |-> TRUE, msg |-> ...]  module.fail_json was called
\*   [fail |-> FALSE, pubkey |-> ...]  the value handed to ensure_key_present
InvalidFormatMsg == <<"\"pubkey\" parameter has an invalid format">>
RequiredMsg == <<"\"pubkey\" is required when state=present">>

Truthy(pk) == pk.given /\ pk.text # <<>>

Normalize(text) ==
    LET pubkey_parts == Split(text)
    IN  Join(SubSeq(pubkey_parts, 1, Min(2, Len(pubkey_parts))))

\* Lines 200-209 with line 208 as a plain else: a pubkey required in either
\* state.
ValidateAlwaysRequired(p) ==
    IF Truthy(p.pubkey)
    THEN IF Len(Split(p.pubkey.text)) < 2
         THEN [fail |-> TRUE, msg |-> InvalidFormatMsg, pubkey |-> <<>>]
         ELSE [fail |-> FALSE, msg |-> <<>>, pubkey |-> Normalize(p.pubkey.text)]
    ELSE [fail |-> TRUE, msg |-> RequiredMsg, pubkey |-> <<>>]

Validate(p) ==
    IF Truthy(p.pubkey)
    THEN IF Len(Split(p.pubkey.text)) < 2
         THEN [fail |-> TRUE, msg |-> InvalidFormatMsg, pubkey |-> <<>>]
         ELSE [fail |-> FALSE, msg |-> <<>>, pubkey |-> Normalize(p.pubkey.text)]
    ELSE IF p.state = "present"
         THEN [fail |-> TRUE, msg |-> RequiredMsg, pubkey |-> <<>>]
         ELSE [fail |-> FALSE, msg |-> <<>>, pubkey |-> p.pubkey.text]

\* Line 108 with the upper bound let in: 200 <= status <= 400.
OkUpTo400(s) == 200 <= s /\ s <= 400

\* GitHubSession.request, line 108
Ok(s) == 200 <= s /\ s < 400

\* GitHubSession.request, lines 109-111: the message of the failure
RequestFailedMsg(method, u) == <<"failed to send request", method, u>>

\* ------------------------------------------------------------- the server
KeysUrl == <<API_BASE, "/user/keys">>
PageUrl(n) == IF n = 1 THEN KeysUrl ELSE <<API_BASE, "/user/keys?page=", n>>
PageOf(u) == IF Len(u) = 2 THEN 1 ELSE u[3]
KeyUrl(id) == <<API_BASE, "/user/keys/", id>>

RemoteKey(id, title, material) ==
    [id |-> id, title |-> title, key |-> material, url |-> KeyUrl(id),
     read_only |-> FALSE, verified |-> TRUE]

NumPages(keys) ==
    IF Len(keys) = 0 THEN 1 ELSE (Len(keys) + PageSize - 1) \div PageSize

PageKeys(keys, n) ==
    SubSeq(keys, (n - 1) * PageSize + 1, Min(n * PageSize, Len(keys)))

\* The Link header of page n: <<url, rel>> entries; <<>> when the server sends
\* no Link header (a listing of one page).
LinkHeader(keys, n) ==
    (IF n < NumPages(keys)
     THEN << <<PageUrl(n + 1), "next">>, <<PageUrl(NumPages(keys)), "last">> >>
     ELSE <<>>)
    \o
    (IF n > 1
     THEN << <<PageUrl(n - 1), "prev">>, <<PageUrl(1), "first">> >>
     ELSE <<>>)

RemoveId(keys, id) == SelectSeq(keys, LAMBDA k : k.id # id)


\* ------------------------------------------------- the module's functions
\* GitHubResponse.links, line 87: 'link' in self.info
HasLink(info) == info.link # <<>>

\* GitHubResponse.links, lines 85-92.  Line 88 reads re.info['link'], an
\* attribute of the regular-expression module `re` (imported on line 71), which
\* has none of that name: whenever the response carries a Link header the call
\* raises AttributeError before the header is parsed.  Without the header the
\* result is the empty dictionary.
Links(info) ==
    IF HasLink(info)
    THEN [exc |-> "AttributeError", links |-> <<>>]
    ELSE [exc |-> "", links |-> <<>>]

\* dict.get(rel) on the result of links(): the URL, or <<>> for None.
RECURSIVE LinksGet(_, _)
LinksGet(links, rel) ==
    IF links = <<>> THEN <<>>
    ELSE LET last == links[Len(links)]
         IN  IF last[2] = rel THEN last[1]
             ELSE LinksGet(SubSeq(links, 1, Len(links) - 1), rel)

\* ensure_key_absent line 154, ensure_key_present line 161: the filter
\* A title compared without regard to case, as lines 155 and 161 do not.
LowerCase(t) == IF t = "Key" THEN "key" ELSE t

MatchingIgnoringCase(keys, name) ==
    SelectSeq(keys, LAMBDA k : LowerCase(k.title) = LowerCase(name))

Matching(keys, name) == SelectSeq(keys, LAMBDA k : k.title = name)

\* Line 164 without the comparison of the first match with the pubkey.
ShouldReplaceWheneverForced(matching, force, wanted) ==
    matching # <<>> /\ force

\* Line 164 with the comparison turned round: == for !=.
ShouldReplaceWhenEqual(matching, force, wanted) ==
    matching # <<>> /\ force /\ matching[1].key = wanted

\* ensure_key_present, line 164
ShouldReplace(matching, force, wanted) ==
    matching # <<>> /\ force /\ matching[1].key # wanted

\* Line 174 without its second operand: bool(deleted_keys).
ChangedOnlyOnDelete(deleted, matching) == deleted # <<>>

\* ensure_key_present, line 174
Changed(deleted, matching) == deleted # <<>> \/ matching = <<>>

\* create_key, lines 126-137: the record made up in check mode
\* (created_at, the time of the call, is left out).
CheckModeUrl == <<"http://example.com/CHECK_MODE_GITHUB_KEY">>
CheckModeKey(name, wanted) ==
    [id |-> 0, title |-> name, key |-> wanted, url |-> CheckModeUrl,
     read_only |-> FALSE, verified |-> FALSE]

\* create_key, line 142: the body of the POST
PostData(name, wanted) == [title |-> name, key |-> wanted]
NoData == [title |-> "", key |-> <<>>]

Request(method, u, data) == [method |-> method, url |-> u, data |-> data]

\* The dictionaries handed to module.exit_json.
NoResult ==
    [fields |-> {}, changed |-> FALSE, deleted_keys |-> <<>>,
     matching_keys |-> <<>>, key |-> <<>>]

\* ensure_key_absent, line 157
AbsentResult(td) ==
    [fields |-> {"changed", "deleted_keys"}, changed |-> (td # <<>>),
     deleted_keys |-> td, matching_keys |-> <<>>, key |-> <<>>]

\* ensure_key_present, lines 173-178
PresentResult(deleted, matching, k) ==
    [fields |-> {"changed", "deleted_keys", "matching_keys", "key"},
     changed |-> Changed(deleted, matching), deleted_keys |-> deleted,
     matching_keys |-> matching, key |-> <<k>>]

\* ------------------------------------------------------------------ state
VARIABLES
    remote,         \* the account's keys, in the server's listing order
    nextId,         \* the id the server gives the next key it creates
    before,         \* remote as it stood when the running invocation began
    prev,           \* what the previous invocation did
    params,         \* module.params
    check_mode,     \* module.check_mode
    pc,             \* "idle", "list", "delete", "create", "done"
    pubkey,         \* main's pubkey after lines 200-209
    url,            \* get_all_keys' url; <<>> is None
    listed,         \* the keys get_all_keys has yielded
    matching_keys,  \* ensure_key_present's matching_keys
    to_delete,      \* the list handed to delete_keys
    pending,        \* what delete_keys' loop has still to visit
    deleted_keys,   \* ensure_key_present's deleted_keys
    requests,       \* the requests this invocation has sent, in order
    status,         \* info['status'] of the last response; 0 before any
    outcome,        \* "", "exit_json", "fail_json", "AttributeError"
    msg,            \* fail_json's msg
    result          \* exit_json's arguments

vars ==
    <<remote, nextId, before, prev, params, check_mode, pc, pubkey, url, listed,
      matching_keys, to_delete, pending, deleted_keys, requests, status,
      outcome, msg, result>>

\* Every key collection of at most MaxKeys keys, ids in creation order.
RemoteInit ==
    UNION { { [i \in 1..n |-> RemoteKey(i, tm[i][1], tm[i][2])] :
                tm \in [1..n -> Titles \X Materials] } : n \in 0..MaxKeys }

NoRun ==
    [ran |-> FALSE, check_mode |-> FALSE, outcome |-> "", result |-> NoResult,
     before |-> <<>>, after |-> <<>>, requests |-> <<>>]

Init ==
    /\ remote \in RemoteInit
    /\ nextId = Len(remote) + 1
    /\ before = remote
    /\ prev = NoRun
    /\ params \in Params
    /\ check_mode \in BOOLEAN
    /\ pc = "idle"
    /\ pubkey = <<>>
    /\ url = <<>>
    /\ listed = <<>>
    /\ matching_keys = <<>>
    /\ to_delete = <<>>
    /\ pending = <<>>
    /\ deleted_keys = <<>>
    /\ requests = <<>>
    /\ status = 0
    /\ outcome = ""
    /\ msg = <<>>
    /\ result = NoResult

\* ---------------------------------------------------- how a handler ends
\* module.exit_json(**result), line 218
ExitJson(res) ==
    /\ pc' = "done"
    /\ outcome' = "exit_json"
    /\ msg' = <<>>
    /\ result' = res

\* module.fail_json(msg=...): the process ends with an error
FailJson(m) ==
    /\ pc' = "done"
    /\ outcome' = "fail_json"
    /\ msg' = m
    /\ result' = NoResult

\* an exception nothing catches: the process ends with a traceback
Raise(exc) ==
    /\ pc' = "done"
    /\ outcome' = exc
    /\ msg' = <<>>
    /\ result' = NoResult

Continue(at) ==
    /\ pc' = at
    /\ UNCHANGED <<outcome, msg, result>>

\* What the server answers to GET u: the page's keys and the response headers.
ServerPage(u) == PageKeys(remote, PageOf(u))
ServerInfo(u, s) == [status |-> s, link |-> LinkHeader(remote, PageOf(u))]

\* The locals of the handlers, as an invocation finds them.
ResetLocals ==
    /\ listed' = <<>>
    /\ matching_keys' = <<>>
    /\ to_delete' = <<>>
    /\ pending' = <<>>
    /\ deleted_keys' = <<>>

\* ---------------------------------------------------------------- actions
\* main, lines 194-216, up to the first request: the parameters are read and
\* the pubkey is checked and stripped of its comment; ensure_key_present and
\* ensure_key_absent both begin by listing the keys.  The first invocation
\* runs with the parameters of Init; a second one repeats them, in either
\* mode.
Main(cm) ==
    /\ \/ pc = "idle" /\ cm = check_mode /\ prev' = prev
       \/ /\ pc = "done"
          /\ ~prev.ran
          /\ prev' = [ran |-> TRUE, check_mode |-> check_mode, outcome |-> outcome,
                      result |-> result, before |-> before, after |-> remote,
                      requests |-> requests]
    /\ check_mode' = cm
    /\ before' = remote
    /\ requests' = <<>>
    /\ status' = 0
    /\ ResetLocals
    /\ LET v == Validate(params)
       IN  IF v.fail
           THEN /\ FailJson(v.msg)
                /\ pubkey' = <<>>
                /\ url' = <<>>
           ELSE /\ pc' = "list"
                /\ outcome' = ""
                /\ msg' = <<>>
                /\ result' = NoResult
                /\ pubkey' = v.pubkey
                /\ url' = KeysUrl
    /\ UNCHANGED <<remote, nextId, params>>

\* delete_keys without lines 146-147: check_mode is not looked at.
DeleteKeysSendsAlways(td, cm) == td

\* delete_keys with a loop that stops after its first turn.
DeleteKeysSendsFirst(td, cm) ==
    IF cm THEN <<>> ELSE SubSeq(td, 1, Min(1, Len(td)))

\* delete_keys, lines 145-150: the keys it sends a DELETE for, in order.
DeleteKeysSends(td, cm) == IF cm THEN <<>> ELSE td

\* ensure_key_absent, lines 154-157, from the end of the listing to the first
\* DELETE, or to the result when delete_keys has nothing to send.
AbsentAfterListing(all) ==
    LET td == Matching(all, params.name)
        sends == DeleteKeysSends(td, check_mode)
    IN  /\ to_delete' = td
        /\ pending' = sends
        /\ UNCHANGED <<matching_keys, deleted_keys>>
        /\ IF sends = <<>>
           THEN ExitJson(AbsentResult(td))
           ELSE Continue("delete")

\* ensure_key_present, lines 168-178: create or reuse, with the deleted and the
\* matching keys as lines 164-166 leave them.
PresentCreateOrReuse(deleted, matching) ==
    /\ deleted_keys' = deleted
    /\ matching_keys' = matching
    /\ IF matching # <<>>
       THEN ExitJson(PresentResult(deleted, matching, matching[1]))
       ELSE IF check_mode
            THEN ExitJson(PresentResult(deleted, matching,
                                        CheckModeKey(params.name, pubkey)))
            ELSE Continue("create")

\* ensure_key_present, lines 161-178, from the end of the listing to the first
\* DELETE or to the POST, or to the result when no request is left to send.
PresentAfterListing(all) ==
    LET m == Matching(all, params.name)
        sends == DeleteKeysSends(m, check_mode)
    IN  IF ShouldReplace(m, params.force, pubkey)
        THEN /\ to_delete' = m
             /\ pending' = sends
             /\ IF sends = <<>>
                THEN PresentCreateOrReuse(m, <<>>)
                ELSE /\ matching_keys' = m
                     /\ deleted_keys' = <<>>
                     /\ Continue("delete")
        ELSE /\ UNCHANGED <<to_delete, pending>>
             /\ PresentCreateOrReuse(<<>>, m)

\* get_all_keys, lines 117-122: one turn of the loop, and, when the loop ends,
\* the caller's code up to its next request.
ListPage(s) ==
    /\ pc = "list"
    /\ url # <<>>
    /\ requests' = Append(requests, Request("GET", url, NoData))
    /\ status' = s
    /\ IF ~Ok(s)
       THEN /\ FailJson(RequestFailedMsg("GET", url))
            /\ UNCHANGED <<url, listed, matching_keys, to_delete, pending,
                           deleted_keys>>
       ELSE LET all == listed \o ServerPage(url)
                l == Links(ServerInfo(url, s))
                next == LinksGet(l.links, "next")
            IN  /\ listed' = all
                /\ IF l.exc # ""
                   THEN /\ Raise(l.exc)
                        /\ UNCHANGED <<url, matching_keys, to_delete, pending,
                                       deleted_keys>>
                   ELSE /\ url' = next
                        /\ IF next # <<>>
                           THEN /\ Continue("list")
                                /\ UNCHANGED <<matching_keys, to_delete, pending,
                                               deleted_keys>>
                           ELSE IF params.state = "present"
                                THEN PresentAfterListing(all)
                                ELSE AbsentAfterListing(all)
    /\ UNCHANGED <<remote, nextId, before, prev, params, check_mode, pubkey>>

\* delete_keys, lines 149-150: one turn of the loop, and, after the last one,
\* the caller's code up to its next request.
DeleteKey(s) ==
    /\ pc = "delete"
    /\ pending # <<>>
    /\ LET id == Head(pending).id
       IN  /\ requests' = Append(requests, Request("DELETE", KeyUrl(id), NoData))
           /\ status' = s
           /\ IF ~Ok(s)
              THEN /\ FailJson(RequestFailedMsg("DELETE", KeyUrl(id)))
                   /\ UNCHANGED <<remote, pending, matching_keys, deleted_keys>>
              ELSE /\ remote' = RemoveId(remote, id)
                   /\ pending' = Tail(pending)
                   /\ IF Tail(pending) # <<>>
                      THEN /\ Continue("delete")
                           /\ UNCHANGED <<matching_keys, deleted_keys>>
                      ELSE IF params.state = "absent"
                           THEN /\ ExitJson(AbsentResult(to_delete))
                                /\ UNCHANGED <<matching_keys, deleted_keys>>
                           ELSE PresentCreateOrReuse(matching_keys, <<>>)
    /\ UNCHANGED <<nextId, before, prev, params, check_mode, pubkey, url, listed,
                   to_delete>>

\* create_key, lines 139-142, and ensure_key_present's result.
CreateKey(s) ==
    /\ pc = "create"
    /\ requests' = Append(requests,
                          Request("POST", KeysUrl, PostData(params.name, pubkey)))
    /\ status' = s
    /\ IF ~Ok(s)
       THEN /\ FailJson(RequestFailedMsg("POST", KeysUrl))
            /\ UNCHANGED <<remote, nextId>>
       ELSE LET data == PostData(params.name, pubkey)
                created == RemoteKey(nextId, data.title, data.key)
            IN  /\ remote' = Append(remote, created)
                /\ nextId' = nextId + 1
                /\ ExitJson(PresentResult(deleted_keys, matching_keys, created))
    /\ UNCHANGED <<before, prev, params, check_mode, pubkey, url, listed,
                   matching_keys, to_delete, pending, deleted_keys>>

Next ==
    \/ \E cm \in BOOLEAN : Main(cm)
    \/ \E s \in StatusSet : ListPage(s)
    \/ \E s \in StatusSet : DeleteKey(s)
    \/ \E s \in StatusSet : CreateKey(s)

Spec == Init /\ [][Next]_vars

\* ================================================================ claims
\* Vocabulary of the properties below.

\* The running invocation has ended.
Finished == pc = "done"

\* The pubkey check let the invocation through to ensure_key_present or
\* ensure_key_absent (both begin with a GET).
EnsureCalled == requests # <<>>

\* The invocation ended on a response outside 200..399.
TransportFailure == outcome = "fail_json" /\ requests # <<>>

\* The keys titled params.name among keys.
Titled(keys) == Matching(keys, params.name)

Methods(reqs) == [i \in 1..Len(reqs) |-> reqs[i].method]
Sent(method) == SelectSeq(requests, LAMBDA r : r.method = method)
OnlyGets(reqs) == \A i \in 1..Len(reqs) : reqs[i].method = "GET"

\* The first invocation ran with check_mode off and returned a result.
FirstRunReturned == prev.ran /\ ~prev.check_mode /\ prev.outcome = "exit_json"

\* A non-dry-run ensure_key_present / ensure_key_absent call has ended, and
\* not on a transport failure.
PresentCallOver ==
    /\ Finished /\ EnsureCalled /\ ~TransportFailure
    /\ params.state = "present" /\ ~check_mode
AbsentCallOver ==
    /\ Finished /\ EnsureCalled /\ ~TransportFailure
    /\ params.state = "absent" /\ ~check_mode

\* The listing of the keys fits one page, so that the server sends no Link
\* header with it.
OnePage(keys) == NumPages(keys) = 1

\* C1.  Idempotence of present: of two successive ensure_key_present calls
\* with the same arguments, check_mode off and no transport failure, the first
\* returns changed=true and the second changed=false, and after each the
\* remote holds exactly one key titled name, whose material is the pubkey.
C1_PresentIdempotent ==
    (PresentCallOver /\ (prev.ran => FirstRunReturned))
        => /\ outcome = "exit_json"
           /\ result.changed = ~prev.ran
           /\ Len(Titled(remote)) = 1
           /\ Titled(remote)[1].key = pubkey

\* C1 as amended.  Where the call's listing fits one page: the first call
\* returns changed=true exactly if no key was titled name or force is on and
\* the first such key differs from the pubkey, and then leaves exactly one key
\* titled name, with the pubkey's material; otherwise it returns changed=false
\* and leaves the remote as it was.  The second call returns changed=false and
\* leaves the remote as it was.  A call whose listing takes more than one page
\* returns nothing (C3) and leaves the remote as it was.
C1_SecondRunUnchanged ==
    (PresentCallOver /\ (prev.ran => FirstRunReturned))
        => IF OnePage(before)
           THEN /\ outcome = "exit_json"
                /\ IF prev.ran
                   THEN ~result.changed /\ remote = before
                   ELSE LET m == Titled(before)
                        IN  IF m = <<>> \/ (params.force /\ m[1].key # pubkey)
                            THEN /\ result.changed
                                 /\ Len(Titled(remote)) = 1
                                 /\ Titled(remote)[1].key = pubkey
                            ELSE ~result.changed /\ remote = before
           ELSE outcome = "AttributeError" /\ remote = before

\* C1's case: the first call replaced a key, the second found it in place.
C1_Witness ==
    /\ PresentCallOver /\ outcome = "exit_json"
    /\ FirstRunReturned
    /\ prev.result.changed
    /\ Len(prev.result.deleted_keys) = 1
    /\ ~result.changed
    /\ result.key[1].key = pubkey
    /\ Len(Titled(remote)) = 1

\* C2.  Force semantics: exactly one key K is titled name, its material is
\* not the pubkey, check_mode is off.  With force, the result has changed=true,
\* deleted_keys=[K] and a key with the pubkey's material, K is gone from the
\* remote and one key with the pubkey was added; without force, the result has
\* changed=false and key K, no DELETE and no POST was sent and the remote is
\* as it was.
C2_Force ==
    (/\ PresentCallOver
     /\ Len(Titled(before)) = 1
     /\ Titled(before)[1].key # pubkey)
        => LET K == Titled(before)[1]
           IN  /\ outcome = "exit_json"
               /\ IF params.force
                  THEN /\ result.changed
                       /\ result.deleted_keys = <<K>>
                       /\ result.key[1].key = pubkey
                       /\ Len(remote) = Len(before)
                       /\ SubSeq(remote, 1, Len(remote) - 1) = RemoveId(before, K.id)
                       /\ remote[Len(remote)].title = params.name
                       /\ remote[Len(remote)].key = pubkey
                  ELSE /\ ~result.changed
                       /\ result.key = <<K>>
                       /\ OnlyGets(requests)
                       /\ remote = before

\* C2 on a listing of one page.
C2_ForceOnOnePage == OnePage(before) => C2_Force

\* C3.  Pagination: once get_all_keys is exhausted it has yielded every key of
\* every page in the server's order, with one GET per page.
ListingOver ==
    \/ pc \in {"delete", "create"}
    \/ Finished /\ EnsureCalled /\ ~(TransportFailure /\ OnlyGets(requests))
C3_Pagination ==
    ListingOver
        => /\ outcome # "AttributeError"
           /\ listed = before
           /\ Len(Sent("GET")) = NumPages(before)

\* C3 for n = 1: a listing of one page is yielded whole with one GET.
C3_OnePage == OnePage(before) => C3_Pagination

\* C4.  Dry-run non-mutation: with check_mode on, only GET requests are sent
\* and the remote stays as the invocation found it; when ensure_key_present
\* takes its create path the key of the result is the made-up record (id 0,
\* the name, the pubkey, read_only and verified false, the placeholder URL);
\* ensure_key_absent reports every key titled name in deleted_keys.
C4_DryRun ==
    check_mode
        => /\ OnlyGets(requests)
           /\ remote = before
           /\ (Finished /\ outcome = "exit_json" /\ params.state = "present"
                  /\ result.matching_keys = <<>>)
                 => result.key =
                      << [id |-> 0, title |-> params.name, key |-> pubkey,
                          url |-> <<"http://example.com/CHECK_MODE_GITHUB_KEY">>,
                          read_only |-> FALSE, verified |-> FALSE] >>
           /\ (Finished /\ outcome = "exit_json" /\ params.state = "absent")
                 => result.deleted_keys = Titled(before)

\* C4's case: a dry run of ensure_key_present that would replace two keys.
C4_Witness ==
    /\ check_mode /\ Finished /\ outcome = "exit_json"
    /\ Len(result.deleted_keys) = 2
    /\ params.state = "present"
    /\ result.key[1].id = 0

\* C5.  At most one: after a non-dry-run ensure_key_present has returned, at
\* most one remote key is titled name.
C5_AtMostOne ==
    (PresentCallOver /\ outcome = "exit_json") => Len(Titled(remote)) <= 1

\* C5 as amended: at most one remote key is titled name, unless several were
\* there before and the call kept them (force off, or the first of them has
\* the pubkey's material): then the remote is as it was.
C5_AtMostOneUnlessKept ==
    (PresentCallOver /\ outcome = "exit_json")
        => \/ Len(Titled(remote)) <= 1
           \/ /\ remote = before
              /\ ~params.force \/ Titled(before)[1].key = pubkey

\* C5's case: two keys titled name were replaced by one.
C5_Witness ==
    /\ PresentCallOver /\ outcome = "exit_json"
    /\ Len(Titled(before)) = 2
    /\ Len(Titled(remote)) = 1
    /\ Len(Sent("DELETE")) = 2 /\ Len(Sent("POST")) = 1

\* C6.  Idempotence of absent: of two successive ensure_key_absent calls with
\* the same name, check_mode off and no transport failure, the first returns
\* changed=true exactly if a key titled name existed and leaves none, the
\* second returns changed=false and deleted_keys=[].
C6_AbsentIdempotent ==
    (AbsentCallOver /\ (prev.ran => FirstRunReturned))
        => /\ outcome = "exit_json"
           /\ Titled(remote) = <<>>
           /\ ~prev.ran => (result.changed <=> Titled(before) # <<>>)
           /\ prev.ran => (~result.changed /\ result.deleted_keys = <<>>)

\* C6 where the first call's listing fits one page.
C6_AbsentOnOnePage ==
    (IF prev.ran THEN OnePage(prev.before) ELSE OnePage(before))
        => C6_AbsentIdempotent

\* C7.  ensure_key_absent: the DELETEs sent are, with check_mode off, one per
\* key titled name, to that key's id, in listing order, and none with
\* check_mode on; the result has changed = (some key was titled name) and
\* deleted_keys = the keys titled name, in both modes.
C7_Absent ==
    (/\ Finished /\ EnsureCalled /\ ~TransportFailure
     /\ params.state = "absent")
        => /\ outcome = "exit_json"
           /\ result.changed = (Titled(before) # <<>>)
           /\ result.deleted_keys = Titled(before)
           /\ Len(Sent("POST")) = 0
           /\ LET dels == Sent("DELETE")
                  want == IF check_mode THEN <<>> ELSE Titled(before)
              IN  /\ Len(dels) = Len(want)
                  /\ \A i \in 1..Len(want) :
                        dels[i].url = <<API_BASE, "/user/keys/", want[i].id>>

\* C7 on a listing of one page.
C7_AbsentOnOnePage == OnePage(before) => C7_Absent

\* C8.  ensure_key_present's result: deleted_keys is the keys titled name when
\* the force-replace step deleted them (there were some, force is on and the
\* first differs from the pubkey) and empty otherwise; matching_keys is empty
\* when they were deleted and the keys titled name otherwise; key is the
\* created record when a key was created (the last key of the remote, or in a
\* dry run the record with id 0) and the first key titled name otherwise;
\* changed is true exactly if deleted_keys is not empty or a key was created.
C8_PresentResult ==
    (Finished /\ outcome = "exit_json" /\ params.state = "present")
        => LET m == Titled(before)
               replaced == m # <<>> /\ params.force /\ m[1].key # pubkey
               created == replaced \/ m = <<>>
               k == result.key[1]
           IN  /\ result.deleted_keys = (IF replaced THEN m ELSE <<>>)
               /\ result.matching_keys = (IF replaced THEN <<>> ELSE m)
               /\ result.changed <=> (result.deleted_keys # <<>> \/ created)
               /\ Len(result.key) = 1
               /\ IF created
                  THEN /\ k.title = params.name
                       /\ k.key = pubkey
                       /\ \A i \in 1..Len(before) : before[i].id # k.id
                       /\ IF check_mode
                          THEN k.id = 0 /\ Len(Sent("POST")) = 0
                          ELSE k = remote[Len(remote)] /\ Len(Sent("POST")) = 1
                  ELSE k = m[1] /\ Len(Sent("POST")) = 0

\* C8's case: two keys titled name were deleted and one was created.
C8_Witness ==
    /\ Finished /\ outcome = "exit_json" /\ params.state = "present"
    /\ ~check_mode
    /\ Len(result.deleted_keys) = 2
    /\ result.matching_keys = <<>>
    /\ result.changed
    /\ result.key[1] = remote[Len(remote)]

\* The tokens of a text: its maximal runs of characters other than blanks.
RECURSIVE Tokens(_)
Tokens(text) ==
    IF text = <<>> THEN 0
    ELSE IF Head(text) = " " THEN Tokens(Tail(text))
    ELSE IF Len(text) = 1 \/ text[2] = " " THEN 1 + Tokens(Tail(text))
    ELSE Tokens(Tail(text))

\* Main has run and the invocation failed on its parameters, no request sent.
FailedValidation ==
    Finished /\ outcome = "fail_json" /\ requests = <<>> /\ status = 0

\* C9.  Validation before network: a pubkey of a single token fails
\* validation, as does state=present without a pubkey, with an error and no
\* request sent; state=absent without a pubkey passes validation and goes on
\* to ensure_key_absent.
C9_Validation ==
    pc # "idle"
        => /\ (params.pubkey.given /\ Tokens(params.pubkey.text) = 1)
                 => FailedValidation
           /\ (~params.pubkey.given /\ params.state = "present")
                 => FailedValidation
           /\ (~params.pubkey.given /\ params.state = "absent")
                 => (pc = "list" \/ EnsureCalled)

\* C9 for the pubkeys of a single token that hold no blank at all.
C9_NoBlank ==
    (params.pubkey.given
       => \A i \in 1..Len(params.pubkey.text) : params.pubkey.text[i] # " ")
        => C9_Validation

\* C10.  Fail-fast transport errors: a response is a failure exactly if its
\* status is outside 200..399; the invocation then ends with fail_json, the
\* message naming the request's method and URL, without a result, and sends
\* no request after the failed one.
C10_AfterResponse ==
    status # 0
        => LET last == requests[Len(requests)]
               failed == /\ Finished
                         /\ outcome = "fail_json"
                         /\ msg = <<"failed to send request", last.method, last.url>>
                         /\ result.fields = {}
           IN  /\ failed <=> ~(200 <= status /\ status < 400)
               /\ outcome = "fail_json" => failed
C10_FailFast ==
    /\ []C10_AfterResponse
    /\ [][(status # 0 /\ ~(200 <= status /\ status < 400))
            => (requests' = requests \/ requests' = <<>>)]_vars

\* C10's case: the first of two DELETEs failed; the second DELETE and the POST
\* are never sent.
C10_Witness ==
    /\ status = 400
    /\ Finished /\ outcome = "fail_json"
    /\ Methods(requests) = <<"GET", "DELETE">>
    /\ Len(to_delete) = 2
    /\ params.state = "present"
    /\ Len(Titled(remote)) = 2

\* The first invocation was a real ensure_key_present that a transport failure
\* ended after at least one of its DELETEs had gone through and before any
\* key was created.
FirstRunInterrupted ==
    /\ prev.ran /\ ~prev.check_mode
    /\ params.state = "present"
    /\ prev.outcome = "fail_json"
    /\ Len(prev.after) < Len(prev.before)

\* The second invocation, a real one, has returned a result.
SecondRunReturned ==
    Finished /\ prev.ran /\ ~check_mode /\ outcome = "exit_json"

\* C11.  Self-healing: after a force-replacing ensure_key_present was cut
\* short between its deletions and its create, a second invocation with the
\* same arguments that returns leaves exactly one remote key titled name, with
\* the pubkey's material.
C11_SelfHeal ==
    (FirstRunInterrupted /\ SecondRunReturned)
        => /\ Len(Titled(remote)) = 1
           /\ Titled(remote)[1].key = pubkey

\* C11 as amended: the second invocation leaves at least one key titled name,
\* and the first of them has the pubkey's material; it is the only one unless
\* the interrupted run left several of which the first already has the
\* pubkey's material: those the second invocation keeps, all of them.
C11_SelfHealFirstMatch ==
    (FirstRunInterrupted /\ SecondRunReturned)
        => /\ Titled(remote) # <<>>
           /\ Titled(remote)[1].key = pubkey
           /\ \/ Len(Titled(remote)) = 1
              \/ /\ remote = before
                 /\ Len(Titled(before)) >= 2
                 /\ Titled(before)[1].key = pubkey

\* C11's case: the interrupted run left no key titled name, the second
\* invocation created one.
C11_Witness ==
    /\ FirstRunInterrupted /\ SecondRunReturned
    /\ Titled(before) = <<>>
    /\ Methods(requests) = <<"GET", "POST">>
    /\ Len(Titled(remote)) = 1

\* The first invocation was a dry run and the second, now over, a real one
\* with the same parameters; neither ended on a transport failure.
DryThenReal ==
    /\ prev.ran /\ prev.check_mode
    /\ ~(prev.outcome = "fail_json" /\ prev.requests # <<>>)
    /\ Finished /\ ~check_mode /\ ~TransportFailure

\* C12.  Dry-run predicts the real outcome: the dry run ends as the real run
\* after it does, and what it returns has the same changed, deleted_keys and
\* matching_keys; for ensure_key_present the key has the same title and
\* material.
C12_DryRunPredicts ==
    DryThenReal
        => /\ prev.outcome = outcome
           /\ prev.result.fields = result.fields
           /\ prev.result.changed = result.changed
           /\ prev.result.deleted_keys = result.deleted_keys
           /\ prev.result.matching_keys = result.matching_keys
           /\ Len(prev.result.key) = Len(result.key)
           /\ \A i \in 1..Len(result.key) :
                 /\ prev.result.key[i].title = result.key[i].title
                 /\ prev.result.key[i].key = result.key[i].key

\* C12's case: the dry run reported two keys as deleted and a made-up key, the
\* real run deleted the two and created one.
C12_Witness ==
    /\ DryThenReal
    /\ outcome = "exit_json"
    /\ params.state = "present"
    /\ prev.result.key[1].id = 0
    /\ Len(prev.result.deleted_keys) = 2
    /\ Methods(requests) = <<"GET", "DELETE", "DELETE", "POST">>
    /\ result.key[1].id # 0

\* GETs come first, then DELETEs, then POSTs.
Rank(method) == CASE method = "GET" -> 1 [] method = "DELETE" -> 2 [] OTHER -> 3
InOrder(reqs) ==
    \A i, j \in 1..Len(reqs) : i < j => Rank(reqs[i].method) <= Rank(reqs[j].method)

\* C13.  Request ordering of a real ensure_key_present: every GET precedes
\* every DELETE and POST and every DELETE precedes the POST; at most one POST
\* is sent, and one is sent exactly if no key titled name survives (none was
\* there, or force is on and the first differs from the pubkey); a DELETE is
\* sent only if force is on and the first key titled name differs from the
\* pubkey.  With no key titled name beforehand the requests are the GETs and
\* then one POST with body {title: name, key: pubkey}.
C13_RequestOrder ==
    (params.state = "present" /\ ~check_mode)
        => /\ InOrder(requests)
           /\ Len(Sent("POST")) <= 1
           /\ PresentCallOver
                => LET m == Titled(before)
                       replace == m # <<>> /\ params.force /\ m[1].key # pubkey
                   IN  /\ Len(Sent("POST")) = 1 <=> (m = <<>> \/ replace)
                       /\ Len(Sent("DELETE")) > 0 => replace
                       /\ m = <<>>
                            => /\ Len(Sent("DELETE")) = 0
                               /\ requests[Len(requests)] =
                                    [method |-> "POST",
                                     url |-> <<API_BASE, "/user/keys">>,
                                     data |-> [title |-> params.name,
                                               key |-> pubkey]]

\* C13 on a listing of one page.
C13_OrderOnOnePage == OnePage(before) => C13_RequestOrder

\* get_all_keys has been exhausted: line 161's matching_keys exists.
ListingDone ==
    /\ EnsureCalled
    /\ pc # "list"
    /\ outcome # "AttributeError"
    /\ ~(TransportFailure /\ OnlyGets(requests))

Ids(keys) == {keys[i].id : i \in 1..Len(keys)}

\* C14.  First-match-only comparison in ensure_key_present, m being the keys
\* titled name as listed.  If m's first key has the pubkey's material, then,
\* force or not, no DELETE and no POST is sent, the remote stays as it was
\* with every later key of m on it, and the result has changed=false and that
\* first key.  If force is on and m's first key differs from the pubkey, all
\* of m is reported in deleted_keys and, when a real run gets through its
\* DELETEs, gone from the remote, also the keys of m with the pubkey's
\* material.
C14_FirstMatchOnly ==
    (params.state = "present" /\ ListingDone)
        => LET m == Matching(listed, params.name)
           IN  /\ (m # <<>> /\ m[1].key = pubkey)
                    => /\ OnlyGets(requests)
                       /\ remote = before
                       /\ Finished /\ outcome = "exit_json"
                       /\ ~result.changed
                       /\ result.key = <<m[1]>>
               /\ (m # <<>> /\ m[1].key # pubkey /\ params.force
                     /\ (pc = "create" \/ outcome = "exit_json"))
                    => /\ IF Finished THEN result.deleted_keys = m
                                      ELSE deleted_keys = m
                       /\ ~check_mode
                            => /\ Ids(m) \cap Ids(remote) = {}
                               /\ Len(Sent("DELETE")) = Len(m)

\* C14's cases: force is on and two keys are titled name; the first has the
\* pubkey's material, the second has not, and both stay ...
C14_WitnessKept ==
    /\ params.state = "present" /\ params.force /\ ~check_mode
    /\ Finished /\ outcome = "exit_json"
    /\ Len(Titled(remote)) = 2
    /\ Titled(remote)[1].key = pubkey
    /\ Titled(remote)[2].key # pubkey
    /\ ~result.changed

\* ... or the first has not and the second has, and both are deleted.
C14_Witness ==
    /\ params.state = "present" /\ params.force /\ ~check_mode
    /\ Finished /\ outcome = "exit_json"
    /\ Len(result.deleted_keys) = 2
    /\ result.deleted_keys[1].key # pubkey
    /\ result.deleted_keys[2].key = pubkey
    /\ Ids(result.deleted_keys) \cap Ids(remote) = {}

\* The keys under another title than name, in the remote's order.
Others(keys) == SelectSeq(keys, LAMBDA k : k.title # params.name)

\* C15.  Frame on other titles: over both invocations for name, no step
\* removes, alters or reorders a remote key whose title is not exactly name
\* (a title differing in case only included), and no such key is among the
\* keys listed for deletion, deleted, or returned as deleted_keys,
\* matching_keys or key.
C15_OtherTitlesKept ==
    /\ [](/\ Others(to_delete) = <<>>
          /\ Others(matching_keys) = <<>>
          /\ Others(deleted_keys) = <<>>
          /\ Others(result.deleted_keys) = <<>>
          /\ Others(result.matching_keys) = <<>>
          /\ Others(result.key) = <<>>
          /\ prev.ran => /\ Others(prev.result.deleted_keys) = <<>>
                         /\ Others(prev.result.matching_keys) = <<>>)
    /\ [][Others(remote') = Others(remote)]_vars

\* C15's case: the remote held two keys titled name and one under a title
\* that differs in case only; two real runs for name deleted the former and
\* the latter is still there.
C15_Witness ==
    /\ prev.ran /\ ~prev.check_mode /\ ~check_mode
    /\ params.state = "absent"
    /\ Finished /\ outcome = "exit_json"
    /\ Len(prev.result.deleted_keys) = 2
    /\ Len(Others(prev.before)) = 1
    /\ Others(remote) = Others(prev.before)
    /\ remote = Others(remote)

\* C16.  Listing termination and the next-only cursor: no response's Link
\* metadata, absent or present and whatever relations it holds, ends
\* get_all_keys other than normally; while the listing goes on fewer GETs were
\* sent than the server has pages, and once it is over as many.
C16_NextOnly ==
    /\ outcome # "AttributeError"
    /\ pc = "list" => Len(Sent("GET")) < NumPages(before)
    /\ ListingOver => Len(Sent("GET")) = NumPages(before)

\* C16 for responses without Link metadata (a listing of one page).
C16_NoLink == OnePage(before) => C16_NextOnly

\* The tokens of a text as splitting on whitespace gives them: the pieces
\* between blanks, a run of blanks counting as one separator and leading and
\* trailing blanks as none.
WhitespaceTokens(text) == SelectSeq(Split(text), LAMBDA piece : piece # <<>>)

\* C17.  Key normalization: a pubkey text of fewer than two whitespace-
\* separated tokens fails validation, no request sent; of any other text the
\* key value is its first token, one blank and its second token: that value
\* is what ensure_key_present compares with and what a POST carries, and
\* normalizing it again returns it unchanged.
C17_Normalization ==
    (pc # "idle" /\ Truthy(params.pubkey))
        => LET toks == WhitespaceTokens(params.pubkey.text)
           IN  IF Len(toks) < 2
               THEN FailedValidation
               ELSE /\ ~FailedValidation
                    /\ pubkey = toks[1] \o <<" ">> \o toks[2]
                    /\ Normalize(pubkey) = pubkey
                    /\ \A i \in 1..Len(requests) :
                          requests[i].method = "POST"
                              => requests[i].data.key = pubkey

\* C17 for the texts whose tokens are one blank apart, with no blank before
\* the first or after the last.
C17_SingleBlanks ==
    (\A i \in 1..Len(Split(params.pubkey.text)) :
         Split(params.pubkey.text)[i] # <<>>)
        => C17_Normalization

\* What an invocation with state=absent comes to, told without the pubkey:
\* the requests are the GET of the listing and, after a listing of one page
\* with check_mode off, one DELETE per key titled name, up to the first
\* response that fails; the invocation ends with that failure, or with the
\* AttributeError of a listing of several pages, or with the result of
\* ensure_key_absent.
AbsentOutcome ==
    LET td == Titled(before)
        dels == IF OnePage(before) /\ ~check_mode
                THEN [i \in 1..Len(td) |->
                          Request("DELETE", KeyUrl(td[i].id), NoData)]
                ELSE <<>>
        want == <<Request("GET", KeysUrl, NoData)>> \o dels
        n == Len(requests)
    IN  /\ n <= Len(want)
        /\ requests = SubSeq(want, 1, n)
        /\ Finished <=> (n > 0 /\ (~Ok(status) \/ n = Len(want)))
        /\ Finished
             => IF ~Ok(status)
                THEN /\ outcome = "fail_json"
                     /\ msg = RequestFailedMsg(requests[n].method, requests[n].url)
                     /\ result = NoResult
                ELSE IF OnePage(before)
                THEN outcome = "exit_json" /\ result = AbsentResult(td)
                ELSE outcome = "AttributeError" /\ result = NoResult

\* C18.  With state=absent the pubkey is ignored: whether it is missing,
\* well-formed or malformed, the invocation's outcome (success or error,
\* changed, deleted_keys, requests) is the one the remote, the name, the
\* check mode and the responses alone determine.
C18_PubkeyIgnored ==
    (params.state = "absent" /\ pc # "idle") => AbsentOutcome

\* C18 as amended.  With state=absent a pubkey is not required, but one that
\* is given is validated: a non-empty pubkey without a blank ends the
\* invocation with the invalid-format error, no request sent.  For every other
\* pubkey, missing, empty or holding a blank, the outcome is the one the
\* remote, the name, the check mode and the responses alone determine.
C18_PubkeyValidatedThenIgnored ==
    (params.state = "absent" /\ pc # "idle")
        => IF Truthy(params.pubkey) /\ Len(Split(params.pubkey.text)) < 2
           THEN FailedValidation /\ msg = InvalidFormatMsg
           ELSE AbsentOutcome

\* C18's case: state=absent with a well-formed pubkey deleted the two keys
\* titled name, as it does without a pubkey.
C18_Witness ==
    /\ params.state = "absent" /\ ~check_mode
    /\ params.pubkey.given /\ Len(Split(params.pubkey.text)) >= 2
    /\ Finished /\ outcome = "exit_json"
    /\ Len(result.deleted_keys) = 2
    /\ Len(Sent("DELETE")) = 2
    /\ Titled(remote) = <<>>

====
